---- MODULE Spec2Model ----
(***************************************************************************)
(* Model of the backtest engine of src/nodes/python/BacktestNode.py:       *)
(* BacktestNode.run and the methods it calls, one run per behaviour.       *)
(*                                                                         *)
(* Numbers.  The code computes in floating point; the model computes with  *)
(* exact rationals <<numerator, denominator>> kept in lowest terms with a  *)
(* positive denominator, so that equality of values is equality of pairs.  *)
(* A division by zero that does not raise yields the IEEE values: 0/0 is   *)
(* NaN = <<0, 0>> and x/0 is an infinity <<1, 0>> or <<-1, 0>>; NaN        *)
(* absorbs every operation and compares false with everything.             *)
(* Timestamps are modelled by their chronological rank (an integer); the   *)
(* strings str(timestamp) the code stores order the same way.              *)
(***************************************************************************)
EXTENDS Integers, Sequences, FiniteSets, TLC

(***************************************************************************)
(* Bounds of the model                                                     *)
(***************************************************************************)
MaxBars == 3

(***************************************************************************)
(* Rational arithmetic                                                     *)
(***************************************************************************)
Abs(x) == IF x < 0 THEN -x ELSE x

RECURSIVE GCD(_, _)
GCD(a, b) == IF b = 0 THEN a ELSE GCD(b, a % b)

NaN == <<0, 0>>

Norm(n, d) ==
    IF n = 0 /\ d = 0 THEN NaN
    ELSE LET g == GCD(Abs(n), Abs(d))
             s == IF d < 0 THEN -1 ELSE 1
         IN  <<(s * n) \div g, (s * d) \div g>>

Zero == <<0, 1>>
One == <<1, 1>>
FromInt(i) == <<i, 1>>

RAdd(a, b) == Norm(a[1] * b[2] + b[1] * a[2], a[2] * b[2])
RSub(a, b) == Norm(a[1] * b[2] - b[1] * a[2], a[2] * b[2])
RMul(a, b) == Norm(a[1] * b[1], a[2] * b[2])
RDiv(a, b) == Norm(a[1] * b[2], a[2] * b[1])
RNeg(a) == <<-a[1], a[2]>>
RAbs(a) == <<Abs(a[1]), a[2]>>
RLt(a, b) == a[1] * b[2] < b[1] * a[2]
RLe(a, b) == a # NaN /\ b # NaN /\ a[1] * b[2] <= b[1] * a[2]
RMax(a, b) == IF RLt(a, b) THEN b ELSE a

\* Optional[float] = None
NoneFloat == <<0, -1>>
\* Optional[str] = None (timestamps are ranks 1, 2, ...)
NoneTime == 0

(***************************************************************************)
(* Inputs of a run                                                         *)
(***************************************************************************)
Prices == {1, 2}
Signals == {-3, -1, 0, 1, 2}
\* signals as the upstream signal node emits them
UnitSignals == {-1, 0, 1}
InitialCapitals == {<<100, 1>>}

\* accepted configurations: no costs, commission only, slippage only with
\* half sizing, both costs with half sizing, and a commission of 100%
\* (validate_fees has no upper limit)
Configs ==
    {[initial_capital |-> ic, commission |-> cf[1], slippage |-> cf[2],
      position_size |-> cf[3], max_positions |-> 1] :
        ic \in InitialCapitals,
        cf \in {<<Zero, Zero, One>>,
                <<<<1, 4>>, Zero, One>>,
                <<Zero, <<1, 2>>, <<1, 2>>>>,
                <<<<1, 4>>, <<1, 2>>, <<1, 2>>>>,
                <<One, Zero, One>>}}

\* configurations a caller may hand to the constructor: the accepted ones and
\* ones with a non-positive capital, a negative fee or a position size
\* outside (0, 1]
RawConfigs ==
    Configs \cup
    {[initial_capital |-> cf[1], commission |-> cf[2], slippage |-> cf[3],
      position_size |-> cf[4], max_positions |-> 1] :
        cf \in {<<Zero, Zero, Zero, One>>,
                <<<<-100, 1>>, Zero, Zero, One>>,
                <<<<100, 1>>, <<-1, 4>>, Zero, One>>,
                <<<<100, 1>>, Zero, <<-1, 2>>, One>>,
                <<<<100, 1>>, Zero, Zero, Zero>>,
                <<<<100, 1>>, Zero, Zero, <<-1, 2>>>>,
                <<<<100, 1>>, Zero, Zero, <<3, 2>>>>,
                <<Zero, <<-1, 4>>, Zero, <<3, 2>>>>}}

OhlcvColumns == {"open", "high", "low", "close", "volume"}
PriceColumns == OhlcvColumns \cup {"timestamp"}
SignalColumns == {"timestamp", "signal"}

\* the timestamps of n rows, as given by the caller
Ascending(n) == [i \in 1..n |-> i]
Descending(n) == [i \in 1..n |-> n + 1 - i]

Bars(n, ts, price_sets, signal_set) ==
    {[i \in 1..n |-> [timestamp |-> ts[i], close |-> FromInt(cl[i]), signal |-> sg[i]]] :
        cl \in [1..n -> price_sets], sg \in [1..n -> signal_set]}

\* n bars: timestamp, close and signal of each row, in the caller's order:
\* any signal values on rows given in ascending order, unit signals on rows
\* given in descending order
BarSeqs(n) == Bars(n, Ascending(n), Prices, Signals) \cup Bars(n, Descending(n), Prices, UnitSignals)

\* n bars in ascending order with unit signals, as the tests build them
PlainBarSeqs(n) == Bars(n, Ascending(n), Prices, UnitSignals)

PriceRows(bars) ==
    [i \in 1..Len(bars) |-> [timestamp |-> bars[i].timestamp, close |-> bars[i].close]]
SignalRows(bars) ==
    [i \in 1..Len(bars) |-> [timestamp |-> bars[i].timestamp, signal |-> bars[i].signal]]

CombinedInput(bars) ==
    [name |-> "data", type |-> "dataframe",
     columns |-> PriceColumns \cup {"signal"}, data |-> bars]
PriceInput(bars) ==
    [name |-> "price_data", type |-> "dataframe",
     columns |-> PriceColumns, data |-> PriceRows(bars)]
SignalsInput(bars) ==
    [name |-> "signals", type |-> "signals",
     columns |-> SignalColumns, data |-> SignalRows(bars)]

Layouts == {"combined", "separate", "prices_only", "signals_only", "no_inputs"}

\* the inputs dict of run, in insertion order
InputsOf(layout, bars) ==
    CASE layout = "combined" -> <<CombinedInput(bars)>>
      [] layout = "separate" -> <<SignalsInput(bars), PriceInput(bars)>>
      [] layout = "prices_only" -> <<PriceInput(bars)>>
      [] layout = "signals_only" -> <<SignalsInput(bars)>>
      [] layout = "no_inputs" -> <<>>

(***************************************************************************)
(* State                                                                   *)
(***************************************************************************)
VARIABLES
    params,            \* BacktestParams
    inputs,            \* the inputs dict handed to run
    pc,                \* position of run
    combined_data,     \* the merged, sorted dataframe
    idx,               \* next row of the per-bar loop
    capital,           \* self.capital
    current_position,  \* self.current_position
    trades,            \* self.trades
    equity_curve,      \* self.equity_curve
    stdout,            \* what the engine printed about positions
    results,           \* the value run returns
    error,             \* the message of the RuntimeError run raises
    crossover_params,  \* CrossoverSignalParams of the signal node
    ma_data,           \* the dataframe handed to the signal node
    signals_data       \* the frame the signal node builds and returns

vars == <<params, inputs, pc, combined_data, idx, capital,
          current_position, trades, equity_curve, stdout, results, error,
          crossover_params, ma_data, signals_data>>

\* the signal node is not part of a backtest run
crossover_vars == <<crossover_params, ma_data, signals_data>>
NoCrossover == [buy_threshold |-> Zero, sell_threshold |-> Zero, confirmation_periods |-> 0]

\* self.current_position = None
NoPosition == [status |-> "none"]
NoResults == [type |-> "none"]

\* the caller holds a params dict; no node exists yet
Init ==
    /\ params \in RawConfigs
    /\ inputs = <<>>
    /\ pc = "construct"
    /\ combined_data = <<>>
    /\ idx = 1
    /\ capital = NoneFloat
    /\ current_position = NoPosition
    /\ trades = <<>>
    /\ equity_curve = <<>>
    /\ stdout = <<>>
    /\ results = NoResults
    /\ error = ""
    /\ crossover_params = NoCrossover
    /\ ma_data = <<>>
    /\ signals_data = <<>>

(***************************************************************************)
(* BacktestParams and BacktestNode.__init__                                *)
(***************************************************************************)
\* variant: a capital of zero passes
ValidateInitialCapital_AllowsZero(v) ==
    IF RLt(v, Zero) THEN <<"Initial capital must be positive">> ELSE <<>>

\* each validator yields the messages it raises
ValidateInitialCapital(v) ==
    IF RLe(v, Zero) THEN <<"Initial capital must be positive">> ELSE <<>>

ValidateFees(v) ==
    IF RLt(v, Zero) THEN <<"Commission and slippage must be non-negative">> ELSE <<>>

ValidatePositionSize(v) ==
    IF RLe(v, Zero) \/ RLt(One, v)
    THEN <<"Position size must be between 0 and 1">> ELSE <<>>

\* BacktestParams(**params): the fields are validated in declaration order and
\* the ValidationError lists every message raised
ValidationErrors(p) ==
    ValidateInitialCapital(p.initial_capital) \o ValidateFees(p.commission)
        \o ValidateFees(p.slippage) \o ValidatePositionSize(p.position_size)

RECURSIVE JoinMessages(_)
JoinMessages(msgs) ==
    IF msgs = <<>> THEN ""
    ELSE IF Len(msgs) = 1 THEN msgs[1]
    ELSE msgs[1] \o "; " \o JoinMessages(Tail(msgs))

\* BacktestNode(params)
Construct ==
    /\ pc = "construct"
    /\ LET errs == ValidationErrors(params) IN
       IF errs # <<>>
       THEN /\ pc' = "rejected"
            /\ error' = JoinMessages(errs)
            /\ UNCHANGED <<crossover_vars, params, inputs, combined_data, idx, capital,
                           current_position, trades, equity_curve, stdout, results>>
       ELSE /\ pc' = "ready"
            /\ current_position' = NoPosition
            /\ trades' = <<>>
            /\ equity_curve' = <<>>
            /\ capital' = params.initial_capital
            /\ UNCHANGED <<crossover_vars, params, inputs, combined_data, idx, stdout, results, error>>

\* the caller calls node.run(inputs)
Run ==
    /\ pc = "ready"
    /\ \E n \in 0..MaxBars :
          \/ \E bars \in BarSeqs(n) : inputs' = InputsOf("combined", bars)
          \/ \E bars \in PlainBarSeqs(n) : \E layout \in Layouts \ {"combined"} :
                inputs' = InputsOf(layout, bars)
    /\ pc' = "extract"
    /\ UNCHANGED <<crossover_vars, params, combined_data, idx, capital, current_position,
                   trades, equity_curve, stdout, results, error>>

(***************************************************************************)
(* _extract_input_data and _is_ohlcv_data                                  *)
(***************************************************************************)
\* pd.DataFrame(input_data["data"]): a frame built from no rows has no columns
DataFrame(inp) ==
    [columns |-> IF inp.data = <<>> THEN {} ELSE inp.columns, data |-> inp.data]

\* df.columns.str.lower() raises on the column index of a frame without columns
IsOhlcvRaises(df) == df.columns = {}

IsOhlcvData(df) == OhlcvColumns \subseteq df.columns

\* variant: the missing column is filled with buy signals
WithZeroSignal_FillsOne(df) ==
    [columns |-> df.columns \cup {"signal"},
     data |-> [i \in 1..Len(df.data) |->
                  [timestamp |-> df.data[i].timestamp,
                   close |-> df.data[i].close,
                   signal |-> 1]]]

\* df["signal"] = 0
WithZeroSignal(df) ==
    [columns |-> df.columns \cup {"signal"},
     data |-> [i \in 1..Len(df.data) |->
                  [timestamp |-> df.data[i].timestamp,
                   close |-> df.data[i].close,
                   signal |-> 0]]]

NoFrame == [columns |-> {}, data |-> <<>>]

\* the loop over inputs.items(); acc is combined_data so far
RECURSIVE ExtractLoop(_, _, _)
ExtractLoop(ins, i, acc) ==
    IF i > Len(ins) THEN acc
    ELSE IF ins[i].type # "dataframe" THEN ExtractLoop(ins, i + 1, acc)
    ELSE LET df == DataFrame(ins[i]) IN
         IF IsOhlcvRaises(df) THEN [outcome |-> "raise", message |-> "AttributeError", df |-> NoFrame]
         ELSE IF IsOhlcvData(df) /\ "signal" \in df.columns
              THEN [outcome |-> "found", message |-> "", df |-> df]
         ELSE IF IsOhlcvData(df)
              THEN ExtractLoop(ins, i + 1,
                       [outcome |-> "found", message |-> "", df |-> WithZeroSignal(df)])
         ELSE ExtractLoop(ins, i + 1, acc)

ExtractInputData(ins) ==
    LET r == ExtractLoop(ins, 1, [outcome |-> "none", message |-> "", df |-> NoFrame])
    IN  IF r.outcome = "none"
        THEN [outcome |-> "raise", message |-> "No signals data found in inputs", df |-> NoFrame]
        ELSE r

(***************************************************************************)
(* _merge_signals_and_prices: run passes the same frame twice, so the      *)
(* frame is copied, missing signals are filled and the rows are sorted.    *)
(***************************************************************************)
RECURSIVE MinIndex(_, _, _)
\* index of the first row with the least timestamp among rows i..Len(rows)
MinIndex(rows, i, best) ==
    IF i > Len(rows) THEN best
    ELSE MinIndex(rows, i + 1,
             IF rows[i].timestamp < rows[best].timestamp THEN i ELSE best)

RemoveAt(rows, k) == [i \in 1..(Len(rows) - 1) |-> IF i < k THEN rows[i] ELSE rows[i + 1]]

RECURSIVE SortByTimestamp(_)
SortByTimestamp(rows) ==
    IF rows = <<>> THEN <<>>
    ELSE LET k == MinIndex(rows, 1, 1)
         IN  <<rows[k]>> \o SortByTimestamp(RemoveAt(rows, k))

\* variant: the rows are left in the caller's order
MergeSignalsAndPrices_NoSort(df) == df.data

MergeSignalsAndPrices(df) == SortByTimestamp(df.data)

(***************************************************************************)
(* Position handling                                                       *)
(***************************************************************************)
\* engine state threaded through the methods of one loop iteration
Engine(cap, pos, trs, out) ==
    [capital |-> cap, current_position |-> pos, trades |-> trs, stdout |-> out]

\* variant: the whole position value leaves capital at entry
EnterLongPosition_DeductsNotional(e, timestamp, price) ==
    LET position_value == RMul(e.capital, params.position_size)
        commission_cost == RMul(position_value, params.commission)
        quantity == RDiv(RSub(position_value, commission_cost), price)
    IN  Engine(RSub(e.capital, position_value),
               [entry_time |-> timestamp,
                exit_time |-> NoneTime,
                entry_price |-> price,
                exit_price |-> NoneFloat,
                quantity |-> quantity,
                side |-> "long",
                pnl |-> NoneFloat,
                return_pct |-> NoneFloat,
                commission_paid |-> commission_cost,
                slippage_cost |-> RMul(position_value, params.slippage),
                status |-> "open"],
               e.trades,
               Append(e.stdout, [event |-> "entered", reason |-> ""]))

\* variant: the quantity is bought with the whole position value
EnterLongPosition_FullQuantity(e, timestamp, price) ==
    LET position_value == RMul(e.capital, params.position_size)
        commission_cost == RMul(position_value, params.commission)
        quantity == RDiv(position_value, price)
    IN  Engine(RSub(e.capital, commission_cost),
               [entry_time |-> timestamp,
                exit_time |-> NoneTime,
                entry_price |-> price,
                exit_price |-> NoneFloat,
                quantity |-> quantity,
                side |-> "long",
                pnl |-> NoneFloat,
                return_pct |-> NoneFloat,
                commission_paid |-> commission_cost,
                slippage_cost |-> RMul(position_value, params.slippage),
                status |-> "open"],
               e.trades,
               Append(e.stdout, [event |-> "entered", reason |-> ""]))

EnterLongPosition(e, timestamp, price) ==
    LET position_value == RMul(e.capital, params.position_size)
        commission_cost == RMul(position_value, params.commission)
        quantity == RDiv(RSub(position_value, commission_cost), price)
    IN  Engine(RSub(e.capital, commission_cost),
               [entry_time |-> timestamp,
                exit_time |-> NoneTime,
                entry_price |-> price,
                exit_price |-> NoneFloat,
                quantity |-> quantity,
                side |-> "long",
                pnl |-> NoneFloat,
                return_pct |-> NoneFloat,
                commission_paid |-> commission_cost,
                slippage_cost |-> RMul(position_value, params.slippage),
                status |-> "open"],
               e.trades,
               Append(e.stdout, [event |-> "entered", reason |-> ""]))

\* variant: the proceeds of the sale, not the net profit, are added to capital
ClosePosition_AddsExitValue(e, row, reason) ==
    IF e.current_position = NoPosition THEN e
    ELSE
    LET pos == e.current_position
        price == row.close
        exit_price == IF pos.side = "long"
                      THEN RMul(price, RSub(One, params.slippage))
                      ELSE RMul(price, RAdd(One, params.slippage))
        gross == RMul(RSub(exit_price, pos.entry_price), pos.quantity)
        pnl == IF pos.side = "short" THEN RNeg(gross) ELSE gross
        exit_value == RMul(exit_price, pos.quantity)
        exit_commission == RMul(exit_value, params.commission)
        net_pnl == RSub(pnl, exit_commission)
        return_pct == RDiv(net_pnl, RMul(pos.entry_price, pos.quantity))
        closed == [pos EXCEPT !.exit_time = row.timestamp,
                              !.exit_price = exit_price,
                              !.pnl = net_pnl,
                              !.return_pct = return_pct,
                              !.commission_paid = RAdd(pos.commission_paid, exit_commission),
                              !.status = "closed"]
    IN  Engine(RAdd(e.capital, exit_value),
               NoPosition,
               Append(e.trades, closed),
               Append(e.stdout, [event |-> "closed", reason |-> reason]))

ClosePosition(e, row, reason) ==
    IF e.current_position = NoPosition THEN e
    ELSE
    LET pos == e.current_position
        price == row.close
        exit_price == IF pos.side = "long"
                      THEN RMul(price, RSub(One, params.slippage))
                      ELSE RMul(price, RAdd(One, params.slippage))
        gross == RMul(RSub(exit_price, pos.entry_price), pos.quantity)
        pnl == IF pos.side = "short" THEN RNeg(gross) ELSE gross
        exit_value == RMul(exit_price, pos.quantity)
        exit_commission == RMul(exit_value, params.commission)
        net_pnl == RSub(pnl, exit_commission)
        return_pct == RDiv(net_pnl, RMul(pos.entry_price, pos.quantity))
        closed == [pos EXCEPT !.exit_time = row.timestamp,
                              !.exit_price = exit_price,
                              !.pnl = net_pnl,
                              !.return_pct = return_pct,
                              !.commission_paid = RAdd(pos.commission_paid, exit_commission),
                              !.status = "closed"]
    IN  Engine(RAdd(e.capital, net_pnl),
               NoPosition,
               Append(e.trades, closed),
               Append(e.stdout, [event |-> "closed", reason |-> reason]))

\* variant: a buy while long opens another position
ProcessSignal_Pyramiding(e, signal, row) ==
    IF signal > 0 THEN
        EnterLongPosition(e, row.timestamp, RMul(row.close, RAdd(One, params.slippage)))
    ELSE IF signal < 0 THEN
        IF e.current_position # NoPosition /\ e.current_position.side = "long"
        THEN ClosePosition(e, row, "signal_exit")
        ELSE e
    ELSE e

\* variant: a sell while flat opens a position
ProcessSignal_SellOpens(e, signal, row) ==
    IF signal > 0 THEN
        IF e.current_position = NoPosition
        THEN EnterLongPosition(e, row.timestamp, RMul(row.close, RAdd(One, params.slippage)))
        ELSE e
    ELSE IF signal < 0 THEN
        IF e.current_position # NoPosition /\ e.current_position.side = "long"
        THEN ClosePosition(e, row, "signal_exit")
        ELSE EnterLongPosition(e, row.timestamp, RMul(row.close, RSub(One, params.slippage)))
    ELSE e

\* variant: only the values +1 and -1 are signals
ProcessSignal_UnitOnly(e, signal, row) ==
    IF signal = 1 THEN
        IF e.current_position = NoPosition
        THEN EnterLongPosition(e, row.timestamp, RMul(row.close, RAdd(One, params.slippage)))
        ELSE e
    ELSE IF signal = -1 THEN
        IF e.current_position # NoPosition /\ e.current_position.side = "long"
        THEN ClosePosition(e, row, "signal_exit")
        ELSE e
    ELSE e

\* variant: a sell while long closes the position and opens a new one at once
ProcessSignal_SellReopens(e, signal, row) ==
    IF signal > 0 THEN
        IF e.current_position = NoPosition
        THEN EnterLongPosition(e, row.timestamp, RMul(row.close, RAdd(One, params.slippage)))
        ELSE e
    ELSE IF signal < 0 THEN
        IF e.current_position # NoPosition /\ e.current_position.side = "long"
        THEN EnterLongPosition(ClosePosition(e, row, "signal_exit"),
                               row.timestamp, RMul(row.close, RAdd(One, params.slippage)))
        ELSE e
    ELSE e

ProcessSignal(e, signal, row) ==
    IF signal > 0 THEN
        LET execution_price == RMul(row.close, RAdd(One, params.slippage)) IN
        IF e.current_position = NoPosition
        THEN EnterLongPosition(e, row.timestamp, execution_price)
        ELSE IF e.current_position.side = "short"
        THEN EnterLongPosition(ClosePosition(e, row, "signal_reversal"),
                               row.timestamp, execution_price)
        ELSE e
    ELSE IF signal < 0 THEN
        IF e.current_position # NoPosition /\ e.current_position.side = "long"
        THEN ClosePosition(e, row, "signal_exit")
        ELSE e
    ELSE e

\* variant: the unrealized P&L of the live position is left out
CalculateCurrentEquity_IgnoresPosition(row) == capital

CalculateCurrentEquity(row) ==
    IF current_position = NoPosition THEN capital
    ELSE LET u == RMul(RSub(row.close, current_position.entry_price),
                       current_position.quantity)
         IN  RAdd(capital, IF current_position.side = "short" THEN RNeg(u) ELSE u)

RECURSIVE MaxEquity(_, _)
\* max([point["equity"] for point in curve] + [current])
MaxEquity(curve, current) ==
    IF curve = <<>> THEN current
    ELSE RMax(curve[1].equity, MaxEquity(Tail(curve), current))

\* variant: the peak is taken over the points recorded before this one
CalculateCurrentDrawdown_PriorPeak(current_equity) ==
    IF equity_curve = <<>> THEN Zero
    ELSE LET peak_equity == MaxEquity(Tail(equity_curve), equity_curve[1].equity)
         IN  RDiv(RSub(peak_equity, current_equity), peak_equity)

CalculateCurrentDrawdown(current_equity) ==
    IF equity_curve = <<>> THEN Zero
    ELSE LET peak_equity == MaxEquity(equity_curve, current_equity)
         IN  RDiv(RSub(peak_equity, current_equity), peak_equity)

(***************************************************************************)
(* run                                                                     *)
(***************************************************************************)
\* variant: the exception leaves run without being wrapped
Fail_Unwrapped(message) ==
    /\ pc' = "failed"
    /\ error' = message
    /\ UNCHANGED <<crossover_vars, params, inputs, combined_data, idx, capital,
                   current_position, trades, equity_curve, stdout, results>>

Fail(message) ==
    /\ pc' = "failed"
    /\ error' = "BacktestNode failed: " \o message
    /\ UNCHANGED <<crossover_vars, params, inputs, combined_data, idx, capital,
                   current_position, trades, equity_curve, stdout, results>>

\* run, up to the return of _extract_input_data
Extract ==
    /\ pc = "extract"
    /\ IF inputs = <<>> THEN Fail("BacktestNode requires input data")
       ELSE LET r == ExtractInputData(inputs) IN
            IF r.outcome = "raise" THEN Fail(r.message)
            ELSE /\ combined_data' = r.df.data
                 /\ pc' = "merge"
                 /\ UNCHANGED <<crossover_vars, params, inputs, idx, capital, current_position,
                                trades, equity_curve, stdout, results, error>>

Merge ==
    /\ pc = "merge"
    /\ combined_data' = MergeSignalsAndPrices([columns |-> {}, data |-> combined_data])
    /\ pc' = "simulate"
    /\ UNCHANGED <<crossover_vars, params, inputs, idx, capital, current_position,
                   trades, equity_curve, stdout, results, error>>

\* _run_backtest_simulation, the resets before the loop
StartSimulation ==
    /\ pc = "simulate"
    /\ capital' = params.initial_capital
    /\ current_position' = NoPosition
    /\ trades' = <<>>
    /\ equity_curve' = <<>>
    /\ idx' = 1
    /\ pc' = "loop"
    /\ UNCHANGED <<crossover_vars, params, inputs, combined_data, stdout, results, error>>

\* variant: a point is recorded only while a position is live
RecordEquityPoint_OnlyInPosition(curve, row) ==
    IF current_position = NoPosition /\ curve # <<>> THEN curve
    ELSE Append(curve, [timestamp |-> row.timestamp,
                        equity |-> CalculateCurrentEquity(row),
                        drawdown |-> CalculateCurrentDrawdown(CalculateCurrentEquity(row)),
                        position |-> "long"])

\* self.equity_curve.append({...}) for the row being processed
RecordEquityPoint(curve, row) ==
    LET current_equity == CalculateCurrentEquity(row)
    IN  Append(curve, [timestamp |-> row.timestamp,
                       equity |-> current_equity,
                       drawdown |-> CalculateCurrentDrawdown(current_equity),
                       position |-> IF current_position # NoPosition
                                    THEN "long" ELSE "flat"])

\* _close_position divides net_pnl by entry_price * quantity.  With an entry
\* notional of 0 the division is 0/0: on Python floats it raises
\* ZeroDivisionError, on numpy floats it yields nan.  Which of the two kinds
\* row["close"] has depends on how pandas boxed the row, so both outcomes
\* are possible at every close.
CloseDividesByZero(pos) ==
    pos # NoPosition /\ RMul(pos.entry_price, pos.quantity) = Zero

\* _process_signal reaches _close_position for this signal
SignalCloses(pos, signal) ==
    \/ signal < 0 /\ pos # NoPosition /\ pos.side = "long"
    \/ signal > 0 /\ pos # NoPosition /\ pos.side = "short"

\* one iteration of the loop over data.iterrows()
BarStep ==
    /\ pc = "loop"
    /\ idx <= Len(combined_data)
    /\ LET row == combined_data[idx]
           e0 == Engine(capital, current_position, trades, stdout)
           e1 == IF row.signal # 0 THEN ProcessSignal(e0, row.signal, row) ELSE e0
       IN  \/ /\ equity_curve' = RecordEquityPoint(equity_curve, row)
              /\ capital' = e1.capital
              /\ current_position' = e1.current_position
              /\ trades' = e1.trades
              /\ stdout' = e1.stdout
              /\ idx' = idx + 1
              /\ UNCHANGED <<crossover_vars, params, inputs, pc, combined_data, results, error>>
           \/ /\ SignalCloses(current_position, row.signal)
              /\ CloseDividesByZero(current_position)
              /\ equity_curve' = RecordEquityPoint(equity_curve, row)
              /\ pc' = "failed"
              /\ error' = "BacktestNode failed: float division by zero"
              /\ UNCHANGED <<crossover_vars, params, inputs, combined_data, idx, capital,
                             current_position, trades, stdout, results>>

\* after the loop: close any remaining open position against the last row
EndOfPeriod ==
    /\ pc = "loop"
    /\ idx > Len(combined_data)
    /\ LET e0 == Engine(capital, current_position, trades, stdout)
           e1 == IF current_position # NoPosition
                 THEN ClosePosition(e0, combined_data[Len(combined_data)], "end_of_period")
                 ELSE e0
       IN  \/ /\ capital' = e1.capital
              /\ current_position' = e1.current_position
              /\ trades' = e1.trades
              /\ stdout' = e1.stdout
              /\ pc' = "metrics"
              /\ UNCHANGED <<crossover_vars, params, inputs, combined_data, idx, equity_curve,
                             results, error>>
           \/ /\ CloseDividesByZero(current_position)
              /\ Fail("float division by zero")

(***************************************************************************)
(* _calculate_performance_metrics and the record run returns               *)
(***************************************************************************)
\* pd.Series([point["equity"] for point in self.equity_curve])
EquitySeries(curve) == [i \in 1..Len(curve) |-> curve[i].equity]

RECURSIVE RunningMaxAt(_, _)
\* equity_series.expanding().max() at position i
RunningMaxAt(series, i) ==
    IF i = 1 THEN series[1] ELSE RMax(RunningMaxAt(series, i - 1), series[i])

ExpandingMax(series) == [i \in 1..Len(series) |-> RunningMaxAt(series, i)]

RECURSIVE SeriesMin(_)
SeriesMin(series) ==
    IF Len(series) = 1 THEN series[1]
    ELSE LET m == SeriesMin(Tail(series))
         IN  IF RLt(m, series[1]) THEN m ELSE series[1]

RECURSIVE SeriesMax(_)
SeriesMax(series) ==
    IF Len(series) = 1 THEN series[1]
    ELSE RMax(series[1], SeriesMax(Tail(series)))

\* (equity_series - running_max) / running_max
DrawdownSeries(series) ==
    LET running_max == ExpandingMax(series)
    IN  [i \in 1..Len(series) |->
            RDiv(RSub(series[i], running_max[i]), running_max[i])]

\* variant: the largest instead of the smallest element of the series
MaxDrawdown_OfMax(series) == RAbs(SeriesMax(DrawdownSeries(series)))

\* max_drawdown = abs(drawdown_series.min())
MaxDrawdown(series) == RAbs(SeriesMin(DrawdownSeries(series)))

RECURSIVE DurationLoop(_, _, _, _)
\* the loop of _calculate_max_drawdown_duration from position i on
DurationLoop(is_drawdown, i, current_duration, max_duration) ==
    IF i > Len(is_drawdown) THEN max_duration
    ELSE IF is_drawdown[i]
         THEN DurationLoop(is_drawdown, i + 1, current_duration + 1,
                           IF current_duration + 1 > max_duration
                           THEN current_duration + 1 ELSE max_duration)
         ELSE DurationLoop(is_drawdown, i + 1, 0, max_duration)

\* variant: a point at the running peak counts as in drawdown
CalculateMaxDrawdownDuration_AtPeak(series) ==
    LET running_max == ExpandingMax(series)
        is_drawdown == [i \in 1..Len(series) |-> RLe(series[i], running_max[i])]
    IN  DurationLoop(is_drawdown, 1, 0, 0)

CalculateMaxDrawdownDuration(series) ==
    LET running_max == ExpandingMax(series)
        is_drawdown == [i \in 1..Len(series) |-> RLt(series[i], running_max[i])]
    IN  DurationLoop(is_drawdown, 1, 0, 0)

IsWinning(t) == RLt(Zero, t.pnl)
IsLosing(t) == RLe(t.pnl, Zero)

RECURSIVE SumTradePnl(_)
\* sum(t.pnl for t in trs)
SumTradePnl(trs) ==
    IF trs = <<>> THEN Zero ELSE RAdd(trs[1].pnl, SumTradePnl(Tail(trs)))

RECURSIVE SumReturnPct(_)
SumReturnPct(trs) ==
    IF trs = <<>> THEN Zero ELSE RAdd(trs[1].return_pct, SumReturnPct(Tail(trs)))

\* variant: a break-even trade counts as a win
WinRate_BreakEvenWins(trs) ==
    IF trs = <<>> THEN Zero
    ELSE Norm(Len(SelectSeq(trs, LAMBDA t : RLe(Zero, t.pnl))), Len(trs))

\* win_rate = len(winning_trades) / len(self.trades), 0.0 without trades
WinRate(trs) ==
    IF trs = <<>> THEN Zero
    ELSE Norm(Len(SelectSeq(trs, IsWinning)), Len(trs))

ProfitFactor(trs) ==
    IF trs = <<>> THEN Zero
    ELSE LET winning_trades == SelectSeq(trs, IsWinning)
             losing_trades == SelectSeq(trs, IsLosing)
             total_wins == IF winning_trades # <<>> THEN SumTradePnl(winning_trades) ELSE Zero
             total_losses == IF losing_trades # <<>>
                             THEN RAbs(SumTradePnl(losing_trades)) ELSE One
         IN  IF RLt(Zero, total_losses) THEN RDiv(total_wins, total_losses) ELSE Zero

\* avg_trade_return = np.mean([t.return_pct for t in self.trades]), 0.0 without trades
AvgTradeReturn(trs) ==
    IF trs = <<>> THEN Zero
    ELSE RDiv(SumReturnPct(trs), FromInt(Len(trs)))

\* variant: total_return is the ratio of final to initial capital
CalculatePerformanceMetrics_RatioReturn ==
    LET final_capital == equity_curve[Len(equity_curve)].equity
        equity_series == EquitySeries(equity_curve)
    IN  [total_return |-> RDiv(final_capital, params.initial_capital),
         max_drawdown |-> MaxDrawdown(equity_series),
         max_drawdown_duration |-> CalculateMaxDrawdownDuration(equity_series),
         num_trades |-> Len(trades),
         win_rate |-> WinRate(trades),
         profit_factor |-> ProfitFactor(trades),
         avg_trade_return |-> AvgTradeReturn(trades),
         trades |-> trades,
         equity_curve |-> equity_curve,
         final_capital |-> final_capital]

\* annual_return and sharpe_ratio (a power and a square root) are left out
CalculatePerformanceMetrics ==
    LET final_capital == equity_curve[Len(equity_curve)].equity
        total_return == RDiv(RSub(final_capital, params.initial_capital),
                             params.initial_capital)
        equity_series == EquitySeries(equity_curve)
    IN  [total_return |-> total_return,
         max_drawdown |-> MaxDrawdown(equity_series),
         max_drawdown_duration |-> CalculateMaxDrawdownDuration(equity_series),
         num_trades |-> Len(trades),
         win_rate |-> WinRate(trades),
         profit_factor |-> ProfitFactor(trades),
         avg_trade_return |-> AvgTradeReturn(trades),
         trades |-> trades,
         equity_curve |-> equity_curve,
         final_capital |-> final_capital]

Metrics ==
    /\ pc = "metrics"
    /\ IF equity_curve = <<>> THEN Fail("No equity curve data available")
       ELSE /\ results' = [type |-> "backtest_results", data |-> CalculatePerformanceMetrics]
            /\ pc' = "done"
            /\ UNCHANGED <<crossover_vars, params, inputs, combined_data, idx, capital,
                           current_position, trades, equity_curve, stdout, error>>

\* main: what is written to the output file once the node has stopped
NoOutput == [type |-> "none"]

MainOutput ==
    IF pc \in {"failed", "rejected"} THEN [error |-> error, type |-> "execution_error"]
    ELSE IF pc = "done" THEN results
    ELSE NoOutput

Next ==
    \/ Construct \/ Run
    \/ Extract \/ Merge \/ StartSimulation \/ BarStep \/ EndOfPeriod \/ Metrics

Spec == Init /\ [][Next]_vars

(***************************************************************************)
(* CrossoverSignalNode: _generate_crossover_signals and                    *)
(* _apply_signal_confirmation, applied to a frame of moving averages.      *)
(* A moving average is NaN on the rows before its period is filled.        *)
(***************************************************************************)
MaValues == {NaN, FromInt(1), FromInt(2)}

\* thresholds are percentages of the slow average
CrossoverConfigs ==
    {[buy_threshold |-> th[1], sell_threshold |-> th[2], confirmation_periods |-> cp] :
        th \in {<<Zero, Zero>>, <<FromInt(75), FromInt(75)>>}, cp \in {1, 2}}

MaFrames(n) ==
    {[i \in 1..n |-> [timestamp |-> i, fast_ma |-> f[i], slow_ma |-> sl[i]]] :
        f \in [1..n -> MaValues], sl \in [1..n -> MaValues]}

\* (fast_ma > slow_ma).fillna(False), at row i
FastAboveSlow(rows, i) == RLt(rows[i].slow_ma, rows[i].fast_ma)

\* fast_above_slow.shift(1).fillna(False), at row i
FastAboveSlowPrev(rows, i) == IF i = 1 THEN FALSE ELSE FastAboveSlow(rows, i - 1)

GoldenCross(rows, i) == FastAboveSlow(rows, i) /\ ~FastAboveSlowPrev(rows, i)
DeathCross(rows, i) == ~FastAboveSlow(rows, i) /\ FastAboveSlowPrev(rows, i)

\* (fast_ma - slow_ma) / slow_ma * 100
MaDiffPct(row) == RMul(RDiv(RSub(row.fast_ma, row.slow_ma), row.slow_ma), FromInt(100))

\* the signal of row i: the sell mask is applied after the buy mask
CrossoverSignal(rows, i, p) ==
    LET strength == RAbs(MaDiffPct(rows[i]))
        buy_mask == GoldenCross(rows, i) /\ RLe(p.buy_threshold, strength)
        sell_mask == DeathCross(rows, i) /\ RLe(p.sell_threshold, strength)
    IN  IF sell_mask THEN -1 ELSE IF buy_mask THEN 1 ELSE 0

GenerateCrossoverSignals(rows, p) ==
    [i \in 1..Len(rows) |->
        [timestamp |-> rows[i].timestamp,
         signal |-> CrossoverSignal(rows, i, p),
         fast_ma |-> rows[i].fast_ma,
         slow_ma |-> rows[i].slow_ma,
         ma_diff_pct |-> MaDiffPct(rows[i]),
         crossover_strength |-> RAbs(MaDiffPct(rows[i]))]]

\* the following rows j in range(1, min(confirmation_periods, len - i)) on
\* which the condition of the signal persists; the code counts rows from 0,
\* so its len - i is Len(sd) - i + 1 here
ConfirmationCount(sd, i, p) ==
    LET remaining == Len(sd) - i + 1
        last == IF p.confirmation_periods < remaining
                THEN p.confirmation_periods ELSE remaining
    IN  Cardinality({j \in 1..(last - 1) :
            IF sd[i].signal > 0
            THEN RLt(sd[i + j].slow_ma, sd[i + j].fast_ma)
            ELSE RLt(sd[i + j].fast_ma, sd[i + j].slow_ma)})

ApplySignalConfirmation(sd, p) ==
    IF p.confirmation_periods <= 1 THEN sd
    ELSE [i \in 1..Len(sd) |->
            IF sd[i].signal # 0
               /\ ConfirmationCount(sd, i, p) < p.confirmation_periods - 1
            THEN [sd[i] EXCEPT !.signal = 0]
            ELSE sd[i]]

\* the backtest variables stay as they are before any node is constructed
CrossoverInit ==
    /\ crossover_params \in CrossoverConfigs
    /\ \E n \in 1..MaxBars : ma_data \in MaFrames(n)
    /\ signals_data = <<>>
    /\ pc = "generate_signals"
    /\ params \in Configs
    /\ params.commission = Zero /\ params.slippage = Zero
    /\ inputs = <<>>
    /\ combined_data = <<>>
    /\ idx = 1
    /\ capital = NoneFloat
    /\ current_position = NoPosition
    /\ trades = <<>>
    /\ equity_curve = <<>>
    /\ stdout = <<>>
    /\ results = NoResults
    /\ error = ""

backtest_vars == <<params, inputs, combined_data, idx, capital, current_position,
                   trades, equity_curve, stdout, results, error>>

GenerateSignals ==
    /\ pc = "generate_signals"
    /\ signals_data' = GenerateCrossoverSignals(ma_data, crossover_params)
    /\ pc' = "confirm_signals"
    /\ UNCHANGED <<backtest_vars, crossover_params, ma_data>>

ConfirmSignals ==
    /\ pc = "confirm_signals"
    /\ signals_data' = ApplySignalConfirmation(signals_data, crossover_params)
    /\ pc' = "signals_returned"
    /\ UNCHANGED <<backtest_vars, crossover_params, ma_data>>

CrossoverNext == GenerateSignals \/ ConfirmSignals

CrossoverSpec == CrossoverInit /\ [][CrossoverNext]_vars

(***************************************************************************)
(* Vocabulary of the properties                                            *)
(***************************************************************************)
RECURSIVE SumPnl(_)
SumPnl(trs) == IF trs = <<>> THEN Zero ELSE RAdd(trs[1].pnl, SumPnl(Tail(trs)))

Done == pc = "done"

\* the loop is about to process a row
AtBar == pc = "loop" /\ idx <= Len(combined_data)
CurrentSignal == combined_data[idx].signal

Count(log, ev) == Cardinality({i \in 1..Len(log) : log[i].event = ev})
\* positions entered and not yet closed
LivePositions == Count(stdout, "entered") - Count(stdout, "closed")

\* the rows of the price dataframe handed to run
InputSeries == inputs[Len(inputs)].data

LastBar == combined_data[Len(combined_data)]

\* the last non-zero signal of the merged series is a buy
LastNonZeroSignalIsBuy ==
    \E i \in 1..Len(combined_data) :
        /\ combined_data[i].signal > 0
        /\ \A j \in (i + 1)..Len(combined_data) : combined_data[j].signal = 0

\* maximum of equity over points 1..i, as the element that dominates the prefix
Peak(curve, i) ==
    CHOOSE m \in {curve[j].equity : j \in 1..i} :
        \A j \in 1..i : RLe(curve[j].equity, m)

(***************************************************************************)
(* C1: after a completed run, final_capital equals initial_capital plus    *)
(* the sum of pnl over the trades of the returned ledger.                  *)
(***************************************************************************)
C1_CapitalConservation ==
    Done => results.data.final_capital =
                RAdd(params.initial_capital, SumPnl(results.data.trades))

(***************************************************************************)
(* C2: at most one position is live after any prefix of the bars, and a    *)
(* buy signal received while long leaves the live position, capital and    *)
(* the trade ledger unchanged.                                             *)
(***************************************************************************)
C2_SinglePosition ==
    [][/\ LivePositions' <= 1
       /\ (AtBar /\ CurrentSignal > 0 /\ current_position # NoPosition)
            => /\ current_position' = current_position
               /\ capital' = capital
               /\ trades' = trades]_vars

C2_Witness ==
    /\ pc = "loop" /\ idx >= 3
    /\ combined_data[idx - 2].signal > 0
    /\ combined_data[idx - 1].signal > 0
    /\ current_position # NoPosition
    /\ current_position.entry_time = combined_data[idx - 2].timestamp
    /\ trades = <<>>

(***************************************************************************)
(* C3: a sell signal received while flat opens no position, appends no     *)
(* trade and leaves capital unchanged.                                     *)
(***************************************************************************)
C3_SellWhileFlatNoOp ==
    [][(AtBar /\ CurrentSignal < 0 /\ current_position = NoPosition)
            => /\ current_position' = NoPosition
               /\ trades' = trades
               /\ capital' = capital
               /\ stdout' = stdout]_vars

C3_Witness ==
    /\ pc = "loop" /\ idx >= 2
    /\ combined_data[idx - 1].signal < 0
    /\ \A j \in 1..(idx - 1) : combined_data[j].signal <= 0
    /\ current_position = NoPosition
    /\ trades = <<>>
    /\ capital = params.initial_capital

(***************************************************************************)
(* C4: with the signals in an input of type "signals" and the prices in an *)
(* input of type "dataframe" without a signal column, one buy followed by  *)
(* one later sell yields exactly one trade, long and closed.               *)
(***************************************************************************)
SeparateInputs ==
    /\ Len(inputs) = 2
    /\ inputs[1].type = "signals"
    /\ inputs[2].type = "dataframe"
    /\ "signal" \notin inputs[2].columns

\* the signals input holds one buy and, at a later timestamp, one sell
OneBuyThenOneSell(rows) ==
    \E b, x \in 1..Len(rows) :
        /\ rows[b].signal = 1
        /\ rows[x].signal = -1
        /\ rows[b].timestamp < rows[x].timestamp
        /\ \A k \in 1..Len(rows) : k \notin {b, x} => rows[k].signal = 0

C4_SeparateSignalsApplied ==
    (Done /\ SeparateInputs /\ OneBuyThenOneSell(inputs[1].data))
        => /\ results.data.num_trades = 1
           /\ Len(results.data.trades) = 1
           /\ results.data.trades[1].side = "long"
           /\ results.data.trades[1].status = "closed"

(***************************************************************************)
(* C5: a run over a non-empty series whose signals are all 0 returns no    *)
(* trades, total_return 0 and final_capital equal to initial_capital.      *)
(***************************************************************************)
AllSignalsZero == \A i \in 1..Len(combined_data) : combined_data[i].signal = 0

C5_NoSignalsNoTrades ==
    (Done /\ AllSignalsZero)
        => /\ results.data.num_trades = 0
           /\ results.data.trades = <<>>
           /\ results.data.total_return = Zero
           /\ results.data.final_capital = params.initial_capital

C5_Witness ==
    /\ Done /\ AllSignalsZero
    /\ Len(combined_data) >= 2
    /\ "signal" \in inputs[1].columns /\ inputs[1].type = "dataframe"
    /\ \E i, j \in 1..Len(combined_data) : combined_data[i].close # combined_data[j].close

(***************************************************************************)
(* C6: one equity point is appended per bar, in bar order: after k bars    *)
(* the curve has k points, and the returned curve is as long as the input  *)
(* series.                                                                 *)
(***************************************************************************)
C6_EquityPointPerBar ==
    /\ pc = "loop" =>
          /\ Len(equity_curve) = idx - 1
          /\ \A i \in 1..Len(equity_curve) :
                equity_curve[i].timestamp = combined_data[i].timestamp
    /\ pc = "metrics" => Len(equity_curve) = Len(combined_data)
    /\ Done =>
          /\ Len(results.data.equity_curve) = Len(InputSeries)
          /\ \A i \in 1..Len(InputSeries) :
                results.data.equity_curve[i].timestamp = combined_data[i].timestamp

C6_Witness ==
    /\ Done
    /\ Len(results.data.equity_curve) = 3
    /\ results.data.num_trades >= 1
    /\ \E i \in 1..3 : results.data.equity_curve[i].position = "flat"

(***************************************************************************)
(* C7: every stored drawdown equals (peak - equity) / peak for the peak of *)
(* the points up to and including it, and is never negative.               *)
(***************************************************************************)
C7_CausalDrawdown ==
    \A i \in 1..Len(equity_curve) :
        LET peak == Peak(equity_curve, i) IN
        /\ equity_curve[i].drawdown = RDiv(RSub(peak, equity_curve[i].equity), peak)
        /\ RLe(Zero, equity_curve[i].drawdown)
        /\ i > 1 => RLe(Peak(equity_curve, i - 1), peak)

C7_Witness ==
    /\ Len(equity_curve) >= 3
    /\ RLt(Zero, equity_curve[2].drawdown)
    /\ RLt(equity_curve[2].equity, equity_curve[3].equity)
    /\ RLt(Zero, equity_curve[3].drawdown)

(***************************************************************************)
(* C8: when the last non-zero signal is a buy, the final trade of the      *)
(* ledger has close_reason "end_of_period" and exit_time equal to the last *)
(* bar's timestamp.                                                        *)
(***************************************************************************)
C8_EndOfPeriodReason ==
    (Done /\ LastNonZeroSignalIsBuy)
        => /\ results.data.trades # <<>>
           /\ LET t == results.data.trades[Len(results.data.trades)] IN
              /\ t.exit_time = LastBar.timestamp
              /\ "close_reason" \in DOMAIN t
              /\ t.close_reason = "end_of_period"

(***************************************************************************)
(* C9: a bar whose signal is none of -1, 0, +1 raises no error and leaves  *)
(* position, capital and the trade ledger unchanged.                       *)
(***************************************************************************)
UnrecognizedSignal == AtBar /\ CurrentSignal \notin {-1, 0, 1}

Sealed(t) ==
    /\ t.status = "closed"
    /\ t.exit_time # NoneTime
    /\ t.exit_time >= t.entry_time
    /\ t.exit_price # NoneFloat
    /\ t.pnl # NoneFloat
    /\ t.return_pct # NoneFloat

C10_TradesSealed ==
    /\ \A i \in 1..Len(trades) : Sealed(trades[i])
    /\ Done => \A i \in 1..Len(results.data.trades) : Sealed(results.data.trades[i])

C10_Witness ==
    /\ Done
    /\ Len(results.data.trades) = 2
    /\ results.data.trades[1].exit_time > results.data.trades[1].entry_time
    /\ results.data.trades[2].entry_time = LastBar.timestamp
    /\ results.data.trades[2].exit_time = LastBar.timestamp
    /\ stdout[Len(stdout)].reason = "end_of_period"

(***************************************************************************)
(* Vocabulary of the metrics properties                                    *)
(***************************************************************************)
\* a proper number: not None, no division by zero behind it
Finite(x) == x[2] > 0

Winners(trs) == {i \in 1..Len(trs) : RLt(Zero, trs[i].pnl)}
NonWinners(trs) == {i \in 1..Len(trs) : ~RLt(Zero, trs[i].pnl)}

RECURSIVE SumPnlOver(_, _)
\* sum of pnl over the trades at the indices of set
SumPnlOver(trs, set) ==
    IF set = {} THEN Zero
    ELSE LET i == CHOOSE k \in set : TRUE
         IN  RAdd(trs[i].pnl, SumPnlOver(trs, set \ {i}))

\* the largest stored drawdown of a curve
LargestStoredDrawdown(curve) ==
    CHOOSE m \in {curve[i].drawdown : i \in 1..Len(curve)} :
        \A i \in 1..Len(curve) : RLe(curve[i].drawdown, m)

BelowPeak(curve, k) == RLt(curve[k].equity, Peak(curve, k))

\* lengths of the contiguous runs of points strictly below the running peak
DrawdownRunLengths(curve) ==
    {j - i + 1 : <<i, j>> \in {ij \in (1..Len(curve)) \X (1..Len(curve)) :
                                 /\ ij[1] <= ij[2]
                                 /\ \A k \in ij[1]..ij[2] : BelowPeak(curve, k)}}

LongestDrawdownRun(curve) ==
    LET lens == DrawdownRunLengths(curve) \cup {0}
    IN  CHOOSE m \in lens : \A l \in lens : l <= m

NonDecreasing(curve) ==
    \A i \in 1..(Len(curve) - 1) : RLe(curve[i].equity, curve[i + 1].equity)

(***************************************************************************)
(* C11: with at least one winning trade and a zero sum of pnl over the     *)
(* non-winning trades (none, or only break-even ones), profit_factor is    *)
(* the sum of the winning pnl: finite and not 0.                           *)
(***************************************************************************)
C11_ProfitFactorFloor ==
    LET trs == results.data.trades IN
    (Done /\ Winners(trs) # {} /\ SumPnlOver(trs, NonWinners(trs)) = Zero)
        => /\ results.data.profit_factor = SumPnlOver(trs, Winners(trs))
           /\ Finite(results.data.profit_factor)
           /\ results.data.profit_factor # Zero

(***************************************************************************)
(* C17: the max_drawdown metric equals the largest drawdown stored in the  *)
(* equity curve.                                                           *)
(***************************************************************************)
C17_MaxDrawdownMatchesCurve ==
    Done => results.data.max_drawdown = LargestStoredDrawdown(results.data.equity_curve)

C17_Witness ==
    /\ Done
    /\ RLt(Zero, results.data.max_drawdown)
    /\ LET curve == results.data.equity_curve
       IN  /\ Len(curve) = 3
           /\ curve[2].drawdown = results.data.max_drawdown
           /\ RLt(curve[3].drawdown, curve[2].drawdown)
           /\ RLt(Zero, curve[3].drawdown)

C19_TradeStatistics ==
    Done =>
        LET trs == results.data.trades
            d == results.data
        IN  /\ Finite(d.win_rate) /\ Finite(d.profit_factor)
            /\ RLe(Zero, d.win_rate) /\ RLe(d.win_rate, One)
            /\ trs # <<>> =>
                  d.win_rate[1] * Len(trs) = Cardinality(Winners(trs)) * d.win_rate[2]
            /\ trs = <<>> =>
                  /\ d.win_rate = Zero
                  /\ d.profit_factor = Zero
                  /\ d.avg_trade_return = Zero

C19_Witness ==
    /\ Done
    /\ Len(results.data.trades) = 2
    /\ Cardinality(Winners(results.data.trades)) = 1
    /\ results.data.win_rate = <<1, 2>>
    /\ results.data.trades[2].pnl = Zero

(***************************************************************************)
(* C12: a configuration with initial_capital <= 0, commission < 0,         *)
(* slippage < 0, or position_size <= 0 or > 1 is rejected by the           *)
(* constructor with a message naming the fault, before any bar is          *)
(* processed and without any engine state.                                 *)
(***************************************************************************)
InvalidConfig(p) ==
    \/ p.initial_capital[1] <= 0
    \/ p.commission[1] < 0
    \/ p.slippage[1] < 0
    \/ p.position_size[1] <= 0
    \/ p.position_size[1] > p.position_size[2]

\* the messages a rejection has to carry, one per fault
ExpectedMessages(p) ==
    (IF p.initial_capital[1] <= 0 THEN {"Initial capital must be positive"} ELSE {})
    \cup (IF p.commission[1] < 0 \/ p.slippage[1] < 0
          THEN {"Commission and slippage must be non-negative"} ELSE {})
    \cup (IF p.position_size[1] <= 0 \/ p.position_size[1] > p.position_size[2]
          THEN {"Position size must be between 0 and 1"} ELSE {})

C12_ConfigRejectedAtConstruction ==
    /\ (InvalidConfig(params) /\ pc # "construct") =>
          /\ pc = "rejected"
          /\ error # ""
          /\ ExpectedMessages(params) = {ValidationErrors(params)[i] :
                                            i \in 1..Len(ValidationErrors(params))}
          /\ capital = NoneFloat
          /\ trades = <<>>
          /\ equity_curve = <<>>
          /\ inputs = <<>> /\ combined_data = <<>> /\ idx = 1
          /\ results = NoResults
    /\ pc = "rejected" => InvalidConfig(params)

C12_Witness ==
    /\ pc = "rejected"
    /\ params.initial_capital = Zero
    /\ params.position_size = <<3, 2>>
    /\ params.commission = <<-1, 4>>

(***************************************************************************)
(* C13: the run aborts with an error, and yields no trades, equity curve   *)
(* or metrics, when the price series handed to it is empty or is not       *)
(* sorted ascending by timestamp; the engine never re-orders the bars it   *)
(* was given.  (Non-finite prices cannot be written as rationals and are   *)
(* outside the input sets.)                                                *)
(***************************************************************************)
SortedAscending(rows) ==
    \A i \in 1..(Len(rows) - 1) : rows[i].timestamp < rows[i + 1].timestamp

\* run has gone past the extraction of a dataframe input
RunStarted == pc \in {"merge", "simulate", "loop", "metrics", "done", "failed"}

PastMerge == pc \in {"simulate", "loop", "metrics", "done"}

HasFrame == inputs # <<>> /\ inputs[Len(inputs)].type = "dataframe"

Timestamps(rows) == [i \in 1..Len(rows) |-> rows[i].timestamp]

C13_FailFast ==
    /\ (RunStarted /\ HasFrame
            /\ (InputSeries = <<>> \/ ~SortedAscending(InputSeries)))
          => /\ pc = "failed"
             /\ results = NoResults
             /\ trades = <<>>
             /\ equity_curve = <<>>
    /\ (PastMerge /\ HasFrame)
          => Timestamps(combined_data) = Timestamps(InputSeries)

(***************************************************************************)
(* C14: when the dataframe handed to run has the OHLCV columns but no      *)
(* signal column, every row gets signal 0, the run completes, there are    *)
(* no trades and final_capital equals initial_capital.                     *)
(***************************************************************************)
\* the only dataframe input is a non-empty OHLCV frame without a signal column
OhlcvWithoutSignal ==
    /\ inputs # <<>>
    /\ \E i \in 1..Len(inputs) : inputs[i].type = "dataframe"
    /\ \A i \in 1..Len(inputs) :
          inputs[i].type = "dataframe"
              => /\ OhlcvColumns \subseteq inputs[i].columns
                 /\ "signal" \notin inputs[i].columns
                 /\ inputs[i].data # <<>>

PricesOnly == Len(inputs) = 1 /\ OhlcvWithoutSignal

C15_MissingSignalsRejected ==
    (PricesOnly /\ RunStarted)
        => /\ pc = "failed"
           /\ error = "BacktestNode failed: No signals data found in inputs"
           /\ results = NoResults

(***************************************************************************)
(* C16: a run is all-or-nothing.  A failure in extraction, merging,        *)
(* simulation or metrics leaves run as a RuntimeError whose message        *)
(* starts with "BacktestNode failed", main turns it into an error object   *)
(* with fields error and type = "execution_error", and no result record    *)
(* exists; a result record exists only for a finished run and holds the    *)
(* whole ledger and one equity point per bar.  Inputs without any          *)
(* dataframe-typed price data fail this way.                               *)
(***************************************************************************)
\* what the exceptions raised inside run say
FailureMessages ==
    {"BacktestNode requires input data",
     "No signals data found in inputs",
     "AttributeError",
     "float division by zero",
     "No equity curve data available"}

NoDataframeInput == \A i \in 1..Len(inputs) : inputs[i].type # "dataframe"

C16_AllOrNothing ==
    /\ pc = "failed" =>
          /\ \E m \in FailureMessages : error = "BacktestNode failed: " \o m
          /\ results = NoResults
          /\ MainOutput = [error |-> error, type |-> "execution_error"]
    /\ results # NoResults =>
          /\ Done
          /\ MainOutput = results
          /\ results.data.trades = trades
          /\ results.data.num_trades = Len(trades)
          /\ results.data.equity_curve = equity_curve
          /\ Len(results.data.equity_curve) = Len(InputSeries)
          /\ current_position = NoPosition
    /\ (NoDataframeInput /\ RunStarted) => pc = "failed"

C16_Witness ==
    /\ pc = "failed"
    /\ Len(inputs) = 1
    /\ inputs[1].type = "signals"
    /\ Len(inputs[1].data) = 2
    /\ MainOutput.type = "execution_error"

(***************************************************************************)
(* C20: with commission 0 and slippage 0 and a constant close price, one   *)
(* buy followed by one later sell gives exactly one trade with pnl 0 and   *)
(* return_pct 0, and the capital after the exit is the capital before the  *)
(* entry.                                                                  *)
(***************************************************************************)
ZeroCost == params.commission = Zero /\ params.slippage = Zero

ConstantClose(rows) == \A i, j \in 1..Len(rows) : rows[i].close = rows[j].close

C20_ZeroCostRoundTrip ==
    (Done /\ ZeroCost /\ ConstantClose(combined_data) /\ OneBuyThenOneSell(combined_data))
        => /\ results.data.num_trades = 1
           /\ Len(trades) = 1
           /\ trades[1].pnl = Zero
           /\ trades[1].return_pct = Zero
           /\ trades[1].status = "closed"
           /\ capital = params.initial_capital
           /\ results.data.final_capital = params.initial_capital

C20_Witness ==
    /\ Done /\ ZeroCost
    /\ Len(combined_data) = 3
    /\ ConstantClose(combined_data)
    /\ combined_data[1].signal = 1
    /\ combined_data[2].signal = 0
    /\ combined_data[3].signal = -1
    /\ stdout[Len(stdout)].reason = "signal_exit"
    /\ trades[1].exit_time > trades[1].entry_time

(***************************************************************************)
(* C21: with slippage 0 and commission rate c, a trade opened by a buy and *)
(* closed by a later sell has commission_paid equal, within the tolerance  *)
(* of the test (two decimal places), to 2 * c * entry_price * quantity,    *)
(* whatever the entry and exit close prices.                               *)
(***************************************************************************)
\* the closing messages printed so far, one per ledger trade, in ledger order
ClosedEvents == SelectSeq(stdout, LAMBDA ev : ev.event = "closed")

\* assertAlmostEqual(a, b, places=2): round(a - b, 2) == 0
AlmostEqual(a, b) == RLt(RAbs(RSub(a, b)), <<1, 200>>)

EntryNotional(t) == RMul(t.entry_price, t.quantity)

C21_CommissionBothSides ==
    \A k \in 1..Len(trades) :
        (params.slippage = Zero
            /\ ClosedEvents[k].reason = "signal_exit"
            /\ trades[k].exit_time > trades[k].entry_time)
        => AlmostEqual(trades[k].commission_paid,
                       RMul(RMul(FromInt(2), params.commission), EntryNotional(trades[k])))

(***************************************************************************)
(* C22: every closed trade has pnl net of both commissions,                *)
(* pnl = (exit_price - entry_price) * quantity - commission_paid with      *)
(* commission_paid the entry plus the exit commission, and                 *)
(* return_pct = pnl / (entry_price * quantity).                            *)
(***************************************************************************)
GrossPnl(t) == RMul(RSub(t.exit_price, t.entry_price), t.quantity)

C22_PnlNetOfBothCommissions ==
    \A k \in 1..Len(trades) :
        /\ trades[k].pnl = RSub(GrossPnl(trades[k]), trades[k].commission_paid)
        /\ trades[k].return_pct = RDiv(trades[k].pnl, EntryNotional(trades[k]))

(***************************************************************************)
(* C23: for every configuration the validators accept and every series of  *)
(* positive close prices, each position entered has quantity > 0 and a     *)
(* positive entry_price, each closed trade has a positive exit_price, and  *)
(* return_pct is defined: its denominator entry_price * quantity is not 0. *)
(***************************************************************************)
Positive(x) == Finite(x) /\ RLt(Zero, x)

C23_PositiveQuantity ==
    /\ current_position # NoPosition =>
          /\ Positive(current_position.quantity)
          /\ Positive(current_position.entry_price)
    /\ \A k \in 1..Len(trades) :
          /\ Positive(trades[k].quantity)
          /\ Positive(trades[k].entry_price)
          /\ Positive(trades[k].exit_price)
          /\ EntryNotional(trades[k]) # Zero
          /\ Finite(trades[k].return_pct)
    /\ error # "BacktestNode failed: float division by zero"

(***************************************************************************)
(* C24: the signal node emits a non-zero signal at a row only when the     *)
(* fast moving average crosses the slow one between the previous row and   *)
(* that row; a series whose fast average is strictly above the slow one    *)
(* on every row, the first included, or equal to it on every row, yields   *)
(* no signal at all.                                                       *)
(***************************************************************************)
SignalsReturned == pc = "signals_returned"

NumberAt(rows, i) == Finite(rows[i].fast_ma) /\ Finite(rows[i].slow_ma)

\* the fast average was not above the slow one on row i - 1 and is on row i
CrossesAbove(rows, i) ==
    /\ i > 1
    /\ NumberAt(rows, i - 1) /\ NumberAt(rows, i)
    /\ RLe(rows[i - 1].fast_ma, rows[i - 1].slow_ma)
    /\ RLt(rows[i].slow_ma, rows[i].fast_ma)

\* the fast average was above the slow one on row i - 1 and is not on row i
CrossesBelow(rows, i) ==
    /\ i > 1
    /\ NumberAt(rows, i - 1) /\ NumberAt(rows, i)
    /\ RLt(rows[i - 1].slow_ma, rows[i - 1].fast_ma)
    /\ RLe(rows[i].fast_ma, rows[i].slow_ma)

NoSignals(sd) == \A i \in 1..Len(sd) : sd[i].signal = 0

C24_SignalOnlyOnCross ==
    SignalsReturned =>
        /\ \A i \in 1..Len(signals_data) :
              /\ signals_data[i].signal > 0 => CrossesAbove(ma_data, i)
              /\ signals_data[i].signal < 0 => CrossesBelow(ma_data, i)
        /\ (\A i \in 1..Len(ma_data) : NumberAt(ma_data, i) /\ FastAboveSlow(ma_data, i))
              => NoSignals(signals_data)
        /\ (\A i \in 1..Len(ma_data) :
                NumberAt(ma_data, i) /\ ma_data[i].fast_ma = ma_data[i].slow_ma)
              => NoSignals(signals_data)

(***************************************************************************)
(* C25: capital changes in two kinds of step only.  An accepted entry      *)
(* lowers it by exactly the entry commission, capital * position_size *    *)
(* commission; a close raises it by exactly the net pnl of the trade.      *)
(* Every other step of the run (a bar with signal 0, an ignored buy or     *)
(* sell, the recording of an equity point with unrealized P&L) leaves      *)
(* capital as it was.                                                      *)
(***************************************************************************)
\* the step opens a position
Enters == current_position = NoPosition /\ current_position' # NoPosition

\* the step appends a trade to the ledger
Closes == Len(trades') = Len(trades) + 1

EntryCommission == RMul(RMul(capital, params.position_size), params.commission)

CapitalStep ==
    /\ Enters => capital' = RSub(capital, EntryCommission)
    /\ Closes => capital' = RAdd(capital, trades'[Len(trades')].pnl)
    /\ ~(Enters /\ Closes)
    /\ (~Enters /\ ~Closes) => capital' = capital

\* the simulation is under way: between the resets and the metrics
Simulating == pc \in {"simulate", "loop", "metrics"}

C25_CapitalFrame == [][Simulating => CapitalStep]_vars

\* a run in which capital fell at the entry, stayed put while the equity
\* point showed an unrealized gain, and rose by the pnl at the close
C25_Witness ==
    /\ pc \in {"loop", "metrics"}
    /\ params.commission = <<1, 4>> /\ params.slippage = Zero
    /\ Len(trades) = 1
    /\ Len(equity_curve) = 3
    /\ equity_curve[2].position = "long"
    /\ RLt(RSub(params.initial_capital, <<25, 1>>), equity_curve[2].equity)
    /\ trades[1].entry_time = 1 /\ trades[1].exit_time = 3
    /\ capital = RAdd(RSub(params.initial_capital, <<25, 1>>), trades[1].pnl)

(***************************************************************************)
(* C26: within a bar the equity point is recorded before the bar's signal  *)
(* is processed.  The point of bar i has equity = capital + (close_i -     *)
(* entry_price) * quantity of the position live at the end of bar i - 1    *)
(* (capital alone when flat) and position "long" iff a position was live   *)
(* at the end of bar i - 1.  Hence the first point has equity equal to     *)
(* initial_capital, drawdown 0 and position "flat", the bar of an entry    *)
(* is recorded as flat and the bar of a sell that exits as long.           *)
(***************************************************************************)
\* the point appended by the step, described from the state before the step
PointBeforeSignal ==
    LET row == combined_data[idx]
        pt == equity_curve'[Len(equity_curve')]
        flat == current_position = NoPosition
    IN  /\ Len(equity_curve') = Len(equity_curve) + 1
        /\ pt.timestamp = row.timestamp
        /\ pt.equity = IF flat THEN capital
                       ELSE RAdd(capital, RMul(RSub(row.close, current_position.entry_price),
                                               current_position.quantity))
        /\ pt.position = IF flat THEN "flat" ELSE "long"
        /\ Enters => pt.position = "flat"
        /\ Closes => pt.position = "long"

FirstPointIsInitial ==
    equity_curve # <<>> =>
        /\ equity_curve[1].equity = params.initial_capital
        /\ equity_curve[1].drawdown = Zero
        /\ equity_curve[1].position = "flat"

BuyWhileFlat == AtBar /\ CurrentSignal > 0 /\ current_position = NoPosition

EntryTransition ==
    LET row == combined_data[idx]
        position_value == RMul(capital, params.position_size)
        commission == RMul(position_value, params.commission)
        pos == current_position'
    IN  /\ pos # NoPosition
        /\ pos.status = "open" /\ pos.side = "long"
        /\ pos.entry_time = row.timestamp
        /\ pos.entry_price = RMul(row.close, RAdd(One, params.slippage))
        /\ pos.commission_paid = commission
        /\ pos.quantity = RDiv(RSub(position_value, commission), pos.entry_price)
        /\ RMul(pos.entry_price, pos.quantity) =
              RMul(position_value, RSub(One, params.commission))
        /\ capital' = RSub(capital, commission)
        /\ trades' = trades

C27_EntryTransition == [][BuyWhileFlat => EntryTransition]_vars

\* an entry with both costs at half sizing: close 1 bought at 3/2
C27_Witness ==
    /\ pc = "loop"
    /\ current_position # NoPosition
    /\ params.commission = <<1, 4>> /\ params.slippage = <<1, 2>>
    /\ params.position_size = <<1, 2>>
    /\ trades = <<>>
    /\ current_position.entry_price = <<3, 2>>
    /\ current_position.quantity = <<25, 1>>
    /\ capital = <<175, 2>>

(***************************************************************************)
(* C28: for every accepted configuration and every non-empty series of     *)
(* valid bars (series of 1 or 2 bars included) with any signal sequence,   *)
(* run completes after processing each bar exactly once; at completion no  *)
(* position is live and num_trades equals the number of buy signals that   *)
(* were received while flat.                                               *)
(***************************************************************************)
\* run was handed a non-empty OHLCV frame in ascending order
ValidSeries ==
    /\ HasFrame
    /\ InputSeries # <<>>
    /\ SortedAscending(InputSeries)

C28_RunCompletes ==
    /\ (RunStarted /\ ValidSeries) => pc # "failed"
    /\ (pc \in {"metrics", "done"} /\ ValidSeries) =>
          /\ idx = Len(combined_data) + 1
          /\ Len(equity_curve) = Len(InputSeries)
          /\ current_position = NoPosition
          /\ Len(trades) = Count(stdout, "entered")
    /\ Done => results.data.num_trades = Count(stdout, "entered")

(***************************************************************************)
(* C29: after a completed run the reported final_capital, and the          *)
(* total_return derived from it, equal the engine's realized capital at    *)
(* the end of the run: the capital after every close, a sell on the last   *)
(* bar and the end-of-period close included, with their exit slippage and  *)
(* exit commission applied.                                                *)
(***************************************************************************)
C29_FinalCapitalIsRealized ==
    Done =>
        /\ results.data.final_capital = capital
        /\ results.data.total_return =
              RDiv(RSub(capital, params.initial_capital), params.initial_capital)

(***************************************************************************)
(* C30: the trade ledger is append-only and time-ordered with trades that  *)
(* do not overlap.  Trades appear in order of entry_time, a trade once     *)
(* appended is never modified or removed, and for consecutive trades k and *)
(* k + 1 the exit bar of trade k is strictly earlier than the entry bar of *)
(* trade k + 1: a position is never closed and re-opened on the same bar.  *)
(***************************************************************************)
IsPrefix(a, b) == Len(a) <= Len(b) /\ \A i \in 1..Len(a) : b[i] = a[i]

LedgerOrdered(trs) ==
    \A k \in 1..(Len(trs) - 1) :
        /\ trs[k].entry_time < trs[k + 1].entry_time
        /\ trs[k].exit_time < trs[k + 1].entry_time

\* a position that is live was opened after the last trade of the ledger ended
LiveAfterLedger ==
    (current_position # NoPosition /\ trades # <<>>)
        => trades[Len(trades)].exit_time < current_position.entry_time

C30_LedgerAppendOnly ==
    /\ [][IsPrefix(trades, trades')]_vars
    /\ [](LedgerOrdered(trades) /\ LiveAfterLedger)
    /\ [](Done => results.data.trades = trades)

C30_Witness ==
    /\ pc = "metrics"
    /\ Len(trades) = 2
    /\ trades[1].entry_time = 1
    /\ trades[1].exit_time = 2
    /\ trades[2].entry_time = 3
    /\ ClosedEvents[1].reason = "signal_exit"
    /\ ClosedEvents[2].reason = "end_of_period"

====
